---- MODULE Spec2Model ----
(***************************************************************************)
(* State-machine model of src/main.py: a FastAPI service with a global     *)
(* rate limiter, a cached slow endpoint and the M-Pesa STK payment         *)
(* confirmation webhook that stores one receipt record per callback.       *)
(***************************************************************************)
EXTENDS Integers, Sequences, FiniteSets, TLC

(***************************************************************************)
(* Bounds of the model.                                                    *)
(***************************************************************************)
MaxReqs == 2
MaxItems == 5

(***************************************************************************)
(* JSON values as Python sees them after the request body is decoded.      *)
(* Every value carries its type tag t, so that no two values of different  *)
(* Python types are ever confused.                                         *)
(***************************************************************************)
JStr(s) == [t |-> "str", s |-> s, n |-> 0]
JInt(n) == [t |-> "int", s |-> "", n |-> n]
JBool(b) == [t |-> "bool", s |-> "", n |-> IF b THEN 1 ELSE 0]
JNull == [t |-> "null", s |-> "", n |-> 0]
JObj(f) == [t |-> "obj", o |-> f]
JArr(a) == [t |-> "arr", a |-> a]

\* A field that the envelope does not carry at all (not a JSON value).
Absent == [t |-> "absent", s |-> "", n |-> 0]

\* The scalar values the model draws envelope fields from.
Scalars ==
    {JNull, JBool(FALSE), JBool(TRUE), JStr("0"), JStr("1")}
        \cup {JInt(n) : n \in 0..(MaxItems + 1)}
        \cup {JStr(s) : s \in {"m1", "c1", "c2", "ok", "Insufficient funds"}}
        \cup {JStr("R" \o ToString(i)) : i \in 1..(MaxItems + 1)}

(***************************************************************************)
(* Python operations on those values.                                      *)
(***************************************************************************)
\* The result of an expression: a value, or a raised exception.
Ok(v) == [ok |-> TRUE, val |-> v, exc |-> "", arg |-> ""]
Raise(e, a) == [ok |-> FALSE, val |-> JNull, exc |-> e, arg |-> a]

\* x[k] with a string key k: a dict yields the value or raises KeyError(k);
\* None, numbers, strings and lists raise TypeError.
Subscript(x, k) ==
    IF x.t = "obj"
    THEN IF k \in DOMAIN x.o THEN Ok(x.o[k]) ELSE Raise("KeyError", k)
    ELSE Raise("TypeError", x.t)

\* v == 0 as Python evaluates it: the int 0 and the bool False equal 0,
\* the string "0" and None do not.
EqualsZeroLoose(v) ==
    \/ v.t \in {"int", "bool"} /\ v.n = 0
    \/ v.t = "str" /\ v.s = "0"
EqualsZero(v) == v.t \in {"int", "bool"} /\ v.n = 0

\* v == "<name>" for a string literal.
EqualsStr(v, s) == v.t = "str" /\ v.s = s

\* str(v), as an f-string formats a value.
PyStr(v) ==
    CASE v.t = "str" -> v.s
      [] v.t = "int" -> ToString(v.n)
      [] v.t = "bool" -> (IF v.n = 1 THEN "True" ELSE "False")
      [] OTHER -> "None"

\* json.dumps of a scalar.
JsonTokenStr(v) == PyStr(v)
JsonToken(v) ==
    CASE v.t = "str" -> "\"" \o v.s \o "\""
      [] v.t = "int" -> ToString(v.n)
      [] v.t = "bool" -> (IF v.n = 1 THEN "true" ELSE "false")
      [] OTHER -> "null"

\* json.dumps of a dict of scalars, kept as the ordered list of its
\* members: key and encoded value, in the dict's insertion order.
JsonDumps(d) == [i \in 1..Len(d) |-> [k |-> d[i].k, tok |-> JsonToken(d[i].v)]]

\* str(KeyError(k)) is the repr of the key.
KeyErrorStr(k) == "'" \o k \o "'"

(***************************************************************************)
(* Callback envelopes.  An envelope is described by which parts it carries *)
(* and with which values; Payload builds the decoded JSON body from it.    *)
(***************************************************************************)
Names == <<"Amount", "MpesaReceiptNumber", "TransactionDate", "PhoneNumber">>

\* Kinds of entries of CallbackMetadata.Item: a {Name, Value} pair for one of
\* the four names, a pair named Amount that lacks Value, an entry that
\* lacks Name.
ItemKinds ==
    {"Amount", "MpesaReceiptNumber", "TransactionDate", "PhoneNumber",
     "AmountNoValue", "NoName"}

\* The Value carried by the entry at position i: distinct at every position,
\* a string for the receipt number and a number for the others.
ItemValue(kind, i) ==
    IF kind = "MpesaReceiptNumber" THEN JStr("R" \o ToString(i)) ELSE JInt(i)

Item(kind, i) ==
    CASE kind = "NoName" -> JObj([Value |-> JInt(i)])
      [] kind = "AmountNoValue" -> JObj([Name |-> JStr("Amount")])
      [] OTHER -> JObj([Name |-> JStr(kind), Value |-> ItemValue(kind, i)])

Items(kinds) == [i \in 1..Len(kinds) |-> Item(kinds[i], i)]

Envelope(shape, mrid, crid, rc, rd, meta, kinds) ==
    [shape |-> shape, MerchantRequestID |-> mrid, CheckoutRequestID |-> crid,
     ResultCode |-> rc, ResultDesc |-> rd, meta |-> meta, kinds |-> kinds]

StkFields == {"MerchantRequestID", "CheckoutRequestID", "ResultCode", "ResultDesc"}

CallbackMetadataOf(e) ==
    CASE e.meta = "null" -> JNull
      [] e.meta = "noItem" -> JObj([Other |-> JNull])
      [] OTHER -> JObj([Item |-> JArr(Items(e.kinds))])

StkCallbackOf(e) ==
    LET present == {k \in StkFields : e[k] # Absent}
                     \cup (IF e.meta = "absent" THEN {} ELSE {"CallbackMetadata"})
    IN  JObj([k \in present |->
                IF k = "CallbackMetadata" THEN CallbackMetadataOf(e) ELSE e[k]])

\* The decoded request body (None when the request has no body).
Payload(e) ==
    CASE e.shape = "none" -> JNull
      [] e.shape = "empty" -> JObj([Other |-> JNull])
      [] e.shape = "bodyNull" -> JObj([Body |-> JNull])
      [] e.shape = "bodyEmpty" -> JObj([Body |-> JObj([Other |-> JNull])])
      [] e.shape = "stkNull" -> JObj([Body |-> JObj([stkCallback |-> JNull])])
      [] OTHER -> JObj([Body |-> JObj([stkCallback |-> StkCallbackOf(e)])])

(***************************************************************************)
(* c2b_mpesa_confirmation_resource, up to its await of the store write.    *)
(***************************************************************************)
\* next(item["Value"] for item in CallbackMetadata if item["Name"] == name):
\* the entries are visited in order, item["Name"] is read of every entry
\* visited, item["Value"] of the first one that matches; an exhausted
\* generator raises StopIteration.
RECURSIVE NextValue(_, _)
RECURSIVE NextValueLast(_, _)
NextValueLast(items, name) ==
    IF Len(items) = 0
    THEN Raise("StopIteration", name)
    ELSE LET item == items[Len(items)]
             nm == Subscript(item, "Name")
         IN  IF ~nm.ok THEN nm
             ELSE IF EqualsStr(nm.val, name) THEN Subscript(item, "Value")
             ELSE NextValueLast(SubSeq(items, 1, Len(items) - 1), name)
NextValue(items, name) ==
    IF Len(items) = 0
    THEN Raise("StopIteration", name)
    ELSE LET item == Head(items)
             nm == Subscript(item, "Name")
         IN  IF ~nm.ok THEN nm
             ELSE IF EqualsStr(nm.val, name) THEN Subscript(item, "Value")
             ELSE NextValue(Tail(items), name)

\* Iterating CallbackMetadata: a list yields its entries, None is not iterable.
Iterate(x, name) ==
    IF x.t = "arr" THEN NextValue(x.a, name) ELSE Raise("TypeError", x.t)

\* What the handler holds when it reaches the store write, or the exception
\* that ended it before.
Raised(r) ==
    [kind |-> "raise", exc |-> r.exc, arg |-> r.arg, path |-> "",
     key |-> "", transc |-> <<>>, receipt |-> JNull, code |-> JNull, desc |-> JNull]
ReachedPlainKey(path, crid, transc, receipt, code, desc) ==
    [kind |-> "set", exc |-> "", arg |-> "", path |-> path,
     key |-> "receipt:{CheckoutRequestID}", transc |-> transc,
     receipt |-> receipt, code |-> code, desc |-> desc]
Reached(path, crid, transc, receipt, code, desc) ==
    [kind |-> "set", exc |-> "", arg |-> "", path |-> path,
     key |-> "receipt:" \o PyStr(crid), transc |-> transc,
     receipt |-> receipt, code |-> code, desc |-> desc]

Pair(k, v) == [k |-> k, v |-> v]

SuccessBranch(stk, mrid, crid, rc, rd) ==
    LET cm == Subscript(stk, "CallbackMetadata") IN
    IF ~cm.ok THEN Raised(cm) ELSE
    LET it == Subscript(cm.val, "Item") IN
    IF ~it.ok THEN Raised(it) ELSE
    LET Amount == Iterate(it.val, "Amount") IN
    IF ~Amount.ok THEN Raised(Amount) ELSE
    LET MpesaReceiptNumber == Iterate(it.val, "MpesaReceiptNumber") IN
    IF ~MpesaReceiptNumber.ok THEN Raised(MpesaReceiptNumber) ELSE
    LET TransactionDate == Iterate(it.val, "TransactionDate") IN
    IF ~TransactionDate.ok THEN Raised(TransactionDate) ELSE
    LET PhoneNumber == Iterate(it.val, "PhoneNumber") IN
    IF ~PhoneNumber.ok THEN Raised(PhoneNumber) ELSE
    Reached("success", crid,
            << Pair("MerchantRequestID", mrid),
               Pair("CheckoutRequestID", crid),
               Pair("ResultCode", rc),
               Pair("ResultDesc", rd),
               Pair("Amount", Amount.val),
               Pair("MpesaReceiptNumber", MpesaReceiptNumber.val),
               Pair("TransactionDate", TransactionDate.val),
               Pair("PhoneNumber", PhoneNumber.val) >>,
            MpesaReceiptNumber.val, rc, rd)

FailureBranch(mrid, crid, rc, rd) ==
    Reached("failure", crid,
            << Pair("MerchantRequestID", mrid),
               Pair("CheckoutRequestID", crid),
               Pair("ResultCode", rc),
               Pair("ResultDesc", rd) >>,
            JNull, rc, rd)

ReadEnvelope(c2b_mpesa_request) ==
    LET body == Subscript(c2b_mpesa_request, "Body") IN
    IF ~body.ok THEN Raised(body) ELSE
    LET stk_callback == Subscript(body.val, "stkCallback") IN
    IF ~stk_callback.ok THEN Raised(stk_callback) ELSE
    LET MerchantRequestID == Subscript(stk_callback.val, "MerchantRequestID") IN
    IF ~MerchantRequestID.ok THEN Raised(MerchantRequestID) ELSE
    LET CheckoutRequestID == Subscript(stk_callback.val, "CheckoutRequestID") IN
    IF ~CheckoutRequestID.ok THEN Raised(CheckoutRequestID) ELSE
    LET ResultCode == Subscript(stk_callback.val, "ResultCode") IN
    IF ~ResultCode.ok THEN Raised(ResultCode) ELSE
    LET ResultDesc == Subscript(stk_callback.val, "ResultDesc") IN
    IF ~ResultDesc.ok THEN Raised(ResultDesc) ELSE
    IF EqualsZero(ResultCode.val)
    THEN SuccessBranch(stk_callback.val, MerchantRequestID.val,
                       CheckoutRequestID.val, ResultCode.val, ResultDesc.val)
    ELSE FailureBranch(MerchantRequestID.val, CheckoutRequestID.val,
                       ResultCode.val, ResultDesc.val)

(***************************************************************************)
(* Responses.                                                              *)
(***************************************************************************)
Response(status, kind, detail, receipt_id, success, errors, email) ==
    [status |-> status, kind |-> kind, detail |-> detail,
     receipt_id |-> receipt_id, success |-> success, errors |-> errors,
     email |-> email]

NoResponse == Response(0, "none", JNull, JNull, FALSE, JNull, "")

\* raise HTTPException(status_code=400, detail=...)
HTTPException(detail) == Response(400, "error", detail, JNull, FALSE, JNull, "")

\* An exception that no handler catches: the framework answers 500.
ServerError == Response(500, "server_error", JNull, JNull, FALSE, JNull, "")

\* The limiter's answer to a request over the quota.
TooManyRequests == Response(429, "ratelimit", JNull, JNull, FALSE, JNull, "")

RootResponse == Response(200, "root", JNull, JNull, FALSE, JNull, "")
UserResponse(email) == Response(200, "user", JNull, JNull, FALSE, JNull, email)

\* PaymentConfirmation(receipt_id=..., success=..., errors=...)
PaymentConfirmation(receipt_id, success, errors) ==
    Response(200, "confirmation", JNull, receipt_id, success, errors, "")

\* The try block's except clause and what lies beyond it: only a KeyError is
\* turned into the 400 "Missing required field"; every other exception leaves
\* the handler and becomes a 500.
ExceptAny(exc, arg) ==
    HTTPException(JStr("Missing required field: " \o KeyErrorStr(arg)))
ExceptKeyError(exc, arg) ==
    IF exc = "KeyError"
    THEN HTTPException(JStr("Missing required field: " \o KeyErrorStr(arg)))
    ELSE ServerError

\* Optional[str] fields of PaymentConfirmation.
IsOptionalStr(v) == v.t \in {"str", "null"}
CoerceStr(v) == IF IsOptionalStr(v) THEN v ELSE JStr(PyStr(v))

\* The confirmation built on the success path.  A value that is no string is
\* coerced to one or rejected with a validation error, depending on the
\* installed pydantic.
Confirmations(f) ==
    {PaymentConfirmation(CoerceStr(f.receipt), EqualsZero(f.code), CoerceStr(f.desc))}
        \cup (IF IsOptionalStr(f.receipt) /\ IsOptionalStr(f.desc)
              THEN {} ELSE {ServerError})

(***************************************************************************)
(* The service: requests in flight, the store, the limiter and the cache.  *)
(***************************************************************************)
\* RateLimiter(times=1, seconds=5), @cache(expire=30), asyncio.sleep(5)
Times == 1
Seconds == 5
Expire == 30
SleepSeconds == 5

ReqIds == 1..MaxReqs
Clients == {"a", "b"}
Hook == "/receipts/c2b-payment-confirmation"
Routes == {"/", "/user", "/cached", Hook}
LimitKeys == Clients \X Routes

\* No such moment yet.
Never == 0 - 1

VARIABLES
    pc,          \* where each request stands
    client,      \* who sent it (the limiter's identity)
    route,       \* the path requested
    envelope,    \* the body posted (webhook requests)
    frame,       \* what the webhook handler holds across its await
    resp,        \* the response sent
    sets,        \* how many times the request called the store's SET
    slept,       \* how many times the request ran the 5 second sleep
    sleepLeft,   \* seconds a sleeping request still has to sleep
    store,       \* the key-value store: key -> JSON text
    writes,      \* the SETs the store executed, in order
    limiter,     \* the limiter's counter of every limiting key, with its TTL
    sinceAdmit,  \* seconds since a request of the key last reached a handler
    cache,       \* the entry of the response cache, with its TTL
    sinceStore   \* seconds since a response was last put in the cache

vars == <<pc, client, route, envelope, frame, resp, sets, slept, sleepLeft,
          store, writes, limiter, sinceAdmit, cache, sinceStore>>

reqVars == <<client, route, envelope>>
hookVars == <<frame, sets, store, writes>>
cacheVars == <<slept, sleepLeft, cache, sinceStore>>
limitVars == <<limiter, sinceAdmit>>

NoEnvelope == Envelope("none", Absent, Absent, Absent, Absent, "absent", <<>>)
NoFrame ==
    [kind |-> "none", exc |-> "", arg |-> "", path |-> "",
     key |-> "", transc |-> <<>>, receipt |-> JNull, code |-> JNull, desc |-> JNull]

EmptyStore == [k \in {} |-> <<>>]

\* await red.set(key, value): the key holds the new value, whatever it held.
RedisSetNX(s, key, value) ==
    IF key \in DOMAIN s THEN s
    ELSE [k \in DOMAIN s \cup {key} |-> IF k = key THEN value ELSE s[k]]
RedisSet(s, key, value) ==
    [k \in DOMAIN s \cup {key} |-> IF k = key THEN value ELSE s[k]]

\* The limiter's script on one key: the current count (0 once the key has
\* expired) against the quota.
Current(l) == IF l.ttl > 0 THEN l.count ELSE 0
OverQuota(l) == Current(l) > 0 /\ Current(l) + 1 > Times
Counted(l) ==
    IF Current(l) > 0 THEN [l EXCEPT !.count = @ + 1]
    ELSE [count |-> 1, ttl |-> Seconds]

\* The response cache: an entry answers while its TTL runs; a response put in
\* the cache stays for Expire seconds.
CacheHit(c) == c.ttl > 0
CachePut(body) == [ttl |-> Expire, body |-> body]

\* app = FastAPI(dependencies=[Depends(RateLimiter(...))]): the dependency is
\* global, every route runs it before its handler.
LimitedHookOnly(rt) == rt = Hook
Limited(rt) == TRUE

InitRequests ==
    /\ pc = [r \in ReqIds |-> "idle"]
    /\ client = [r \in ReqIds |-> ""]
    /\ route = [r \in ReqIds |-> ""]
    /\ envelope = [r \in ReqIds |-> NoEnvelope]
    /\ frame = [r \in ReqIds |-> NoFrame]
    /\ resp = [r \in ReqIds |-> NoResponse]
    /\ sets = [r \in ReqIds |-> 0]
    /\ slept = [r \in ReqIds |-> 0]
    /\ sleepLeft = [r \in ReqIds |-> 0]
    /\ writes = <<>>
    /\ limiter = [k \in LimitKeys |-> [count |-> 0, ttl |-> 0]]
    /\ sinceAdmit = [k \in LimitKeys |-> Never]
    /\ cache = [ttl |-> 0, body |-> NoResponse]
    /\ sinceStore = Never

Init ==
    /\ InitRequests
    /\ store = EmptyStore

\* A request arrives and runs the global RateLimiter dependency: over the
\* quota it is answered 429 and no handler runs, otherwise it is counted and
\* goes on to its route's handler.
Request(r, c, rt, e) ==
    /\ pc[r] = "idle"
    /\ \A q \in ReqIds : q < r => pc[q] # "idle"
    /\ client' = [client EXCEPT ![r] = c]
    /\ route' = [route EXCEPT ![r] = rt]
    /\ envelope' = [envelope EXCEPT ![r] = e]
    /\ IF Limited(rt) /\ OverQuota(limiter[<<c, rt>>])
       THEN /\ pc' = [pc EXCEPT ![r] = "done"]
            /\ resp' = [resp EXCEPT ![r] = TooManyRequests]
            /\ UNCHANGED limitVars
       ELSE /\ pc' = [pc EXCEPT ![r] = "admitted"]
            /\ limiter' = IF Limited(rt)
                          THEN [limiter EXCEPT ![<<c, rt>>] = Counted(@)]
                          ELSE limiter
            /\ sinceAdmit' = [sinceAdmit EXCEPT ![<<c, rt>>] = 0]
            /\ UNCHANGED resp
    /\ UNCHANGED <<hookVars, cacheVars>>

\* GET /
root(r) ==
    /\ pc[r] = "admitted" /\ route[r] = "/"
    /\ resp' = [resp EXCEPT ![r] = RootResponse]
    /\ pc' = [pc EXCEPT ![r] = "done"]
    /\ UNCHANGED <<reqVars, hookVars, cacheVars, limitVars>>

\* GET /user
current_user(r) ==
    /\ pc[r] = "admitted" /\ route[r] = "/user"
    /\ resp' = [resp EXCEPT ![r] = UserResponse("me@kylegill.com")]
    /\ pc' = [pc EXCEPT ![r] = "done"]
    /\ UNCHANGED <<reqVars, hookVars, cacheVars, limitVars>>

\* GET /cached, entered through @cache(expire=30): a live cache entry is
\* the response; without one the function body starts its 5 second sleep.
cachedUncached(r) ==
    /\ pc[r] = "admitted" /\ route[r] = "/cached"
    /\ pc' = [pc EXCEPT ![r] = "sleeping"]
    /\ slept' = [slept EXCEPT ![r] = @ + 1]
    /\ sleepLeft' = [sleepLeft EXCEPT ![r] = SleepSeconds]
    /\ UNCHANGED <<resp, cache, sinceStore>>
    /\ UNCHANGED <<reqVars, hookVars, limitVars>>
cached(r) ==
    /\ pc[r] = "admitted" /\ route[r] = "/cached"
    /\ IF CacheHit(cache)
       THEN /\ resp' = [resp EXCEPT ![r] = cache.body]
            /\ pc' = [pc EXCEPT ![r] = "done"]
            /\ UNCHANGED <<slept, sleepLeft>>
       ELSE /\ pc' = [pc EXCEPT ![r] = "sleeping"]
            /\ slept' = [slept EXCEPT ![r] = @ + 1]
            /\ sleepLeft' = [sleepLeft EXCEPT ![r] = SleepSeconds]
            /\ UNCHANGED resp
    /\ UNCHANGED <<cache, sinceStore>>
    /\ UNCHANGED <<reqVars, hookVars, limitVars>>

\* The sleep is over: the function returns its record, the decorator puts it
\* in the cache for Expire seconds and the request is answered.
cachedReturn(r) ==
    /\ pc[r] = "sleeping" /\ sleepLeft[r] = 0
    /\ resp' = [resp EXCEPT ![r] = UserResponse("cached@kylegill.com")]
    /\ cache' = CachePut(UserResponse("cached@kylegill.com"))
    /\ sinceStore' = 0
    /\ pc' = [pc EXCEPT ![r] = "done"]
    /\ UNCHANGED <<slept, sleepLeft>>
    /\ UNCHANGED <<reqVars, hookVars, limitVars>>

\* POST /receipts/c2b-payment-confirmation, up to the await of red.set: the
\* envelope is read and the record built, or an exception ends the handler.
c2b_mpesa_confirmation_resource(r) ==
    /\ pc[r] = "admitted" /\ route[r] = Hook
    /\ LET f == ReadEnvelope(Payload(envelope[r])) IN
       /\ frame' = [frame EXCEPT ![r] = f]
       /\ IF f.kind = "raise"
          THEN /\ resp' = [resp EXCEPT ![r] = ExceptKeyError(f.exc, f.arg)]
               /\ pc' = [pc EXCEPT ![r] = "done"]
               /\ UNCHANGED sets
          ELSE /\ sets' = [sets EXCEPT ![r] = @ + 1]
               /\ pc' = [pc EXCEPT ![r] = "awaitSet"]
               /\ UNCHANGED resp
    /\ UNCHANGED <<store, writes>>
    /\ UNCHANGED <<reqVars, cacheVars, limitVars>>

\* The store executes the SET.
SetDone(r) ==
    /\ pc[r] = "awaitSet"
    /\ store' = RedisSet(store, frame[r].key, JsonDumps(frame[r].transc))
    /\ writes' = Append(writes, [req |-> r, key |-> frame[r].key,
                                 value |-> JsonDumps(frame[r].transc)])
    /\ pc' = [pc EXCEPT ![r] = "afterSet"]
    /\ UNCHANGED <<frame, sets, resp>>
    /\ UNCHANGED <<reqVars, cacheVars, limitVars>>

\* The store cannot be reached: red.set raises a connection error.
SetFailed(r) ==
    /\ pc[r] = "awaitSet"
    /\ resp' = [resp EXCEPT ![r] = ExceptKeyError("ConnectionError", "")]
    /\ pc' = [pc EXCEPT ![r] = "done"]
    /\ UNCHANGED hookVars
    /\ UNCHANGED <<reqVars, cacheVars, limitVars>>

\* After the write: the success path returns the confirmation, the failure
\* path raises HTTPException(400, detail=ResultDesc).
AfterSet(r) ==
    /\ pc[r] = "afterSet"
    /\ IF frame[r].path = "success"
       THEN \E c \in Confirmations(frame[r]) : resp' = [resp EXCEPT ![r] = c]
       ELSE resp' = [resp EXCEPT ![r] = HTTPException(frame[r].desc)]
    /\ pc' = [pc EXCEPT ![r] = "done"]
    /\ UNCHANGED hookVars
    /\ UNCHANGED <<reqVars, cacheVars, limitVars>>

\* One second passes.  The steps of a request take no time on this scale: a
\* second passes only while every request in flight is asleep.
Aged(a, cap) == IF a = Never THEN Never ELSE IF a < cap THEN a + 1 ELSE cap
Down(n) == IF n > 0 THEN n - 1 ELSE 0
Tick ==
    /\ \A r \in ReqIds :
          \/ pc[r] \in {"idle", "done"}
          \/ pc[r] = "sleeping" /\ sleepLeft[r] > 0
    /\ limiter' = [k \in LimitKeys |-> [limiter[k] EXCEPT !.ttl = Down(@)]]
    /\ sinceAdmit' = [k \in LimitKeys |-> Aged(sinceAdmit[k], Seconds)]
    /\ cache' = [cache EXCEPT !.ttl = Down(@)]
    /\ sinceStore' = Aged(sinceStore, Expire)
    /\ sleepLeft' = [r \in ReqIds |-> Down(sleepLeft[r])]
    /\ UNCHANGED <<pc, resp, slept, reqVars, hookVars>>

\* The envelopes posted while the whole service runs.
ServiceEnvelopes ==
    { Envelope("full", JStr("m1"), JStr("c1"), JInt(0), JStr("ok"), "items",
               <<"Amount", "MpesaReceiptNumber", "TransactionDate", "PhoneNumber">>),
      Envelope("full", JStr("m1"), JStr("c1"), JInt(1), JStr("Insufficient funds"),
               "absent", <<>>) }

Bodies(rt) == IF rt = Hook THEN ServiceEnvelopes ELSE {NoEnvelope}

Next ==
    \/ \E r \in ReqIds, c \in Clients, rt \in Routes :
          pc[r] = "idle" /\ \E e \in Bodies(rt) : Request(r, c, rt, e)
    \/ \E r \in ReqIds : root(r)
    \/ \E r \in ReqIds : current_user(r)
    \/ \E r \in ReqIds : cached(r)
    \/ \E r \in ReqIds : cachedReturn(r)
    \/ \E r \in ReqIds : c2b_mpesa_confirmation_resource(r)
    \/ \E r \in ReqIds : SetDone(r)
    \/ \E r \in ReqIds : SetFailed(r)
    \/ \E r \in ReqIds : AfterSet(r)
    \/ Tick

Spec == Init /\ [][Next]_vars

(***************************************************************************)
(* One invocation of the webhook handler on any envelope of the bounded    *)
(* universe, over a store that may already hold a receipt.                 *)
(***************************************************************************)
WellFormedKinds == {"Amount", "MpesaReceiptNumber", "TransactionDate", "PhoneNumber"}

KindSeqs == UNION {[1..n -> ItemKinds] : n \in 0..MaxItems}

\* Envelopes that vary the nesting, the presence and the type of the fields.
FieldEnvelopes ==
    { Envelope(sh, Absent, Absent, Absent, Absent, "absent", <<>>) :
        sh \in {"none", "empty", "bodyNull", "bodyEmpty", "stkNull"} }
    \cup
    { Envelope("full", mrid, crid, rc, rd, meta[1], meta[2]) :
        mrid \in {Absent, JStr("m1")},
        crid \in {Absent, JStr("c1"), JStr("1"), JInt(1)},
        rc \in {Absent, JInt(0), JInt(1), JBool(FALSE), JStr("0")},
        rd \in {Absent, JStr("Insufficient funds"), JInt(1)},
        meta \in { <<"absent", <<>> >>, <<"null", <<>> >>, <<"noItem", <<>> >>,
                   <<"items", <<>> >>,
                   <<"items", <<"PhoneNumber", "TransactionDate",
                                "MpesaReceiptNumber", "Amount">> >> } }

\* Success envelopes that vary the entries of CallbackMetadata.Item.
ItemEnvelopes ==
    { Envelope("full", JStr("m1"), JStr("c1"), JInt(0), JStr("ok"), "items", ks) :
        ks \in KindSeqs }

Envelopes == FieldEnvelopes \cup ItemEnvelopes

\* A receipt stored by an earlier callback.
EarlierReceipt ==
    JsonDumps(<< Pair("MerchantRequestID", JStr("m1")),
                 Pair("CheckoutRequestID", JStr("c1")),
                 Pair("ResultCode", JInt(1)),
                 Pair("ResultDesc", JStr("Insufficient funds")) >>)

EarlierStores == {EmptyStore, RedisSet(EmptyStore, "receipt:c1", EarlierReceipt)}

InitHandler ==
    /\ InitRequests
    /\ store \in EarlierStores

NextHandler ==
    \/ pc[1] = "idle" /\ \E e \in Envelopes : Request(1, "a", Hook, e)
    \/ c2b_mpesa_confirmation_resource(1)
    \/ SetDone(1)
    \/ SetFailed(1)
    \/ AfterSet(1)

SpecHandler == InitHandler /\ [][NextHandler]_vars

(***************************************************************************)
(* Callbacks only: several invocations of the webhook handler, from two    *)
(* callers and over time, with CheckoutRequestIDs that share a key.        *)
(***************************************************************************)
HookEnvelopes ==
    { Envelope("full", JStr("m1"), JStr("c1"), JInt(0), JStr("ok"), "items",
               <<"Amount", "MpesaReceiptNumber", "TransactionDate", "PhoneNumber">>),
      Envelope("full", JStr("m1"), JStr("c1"), JInt(1), JStr("Insufficient funds"),
               "absent", <<>>),
      Envelope("full", JStr("m1"), JInt(1), JInt(0), JStr("ok"), "items",
               <<"PhoneNumber", "TransactionDate", "MpesaReceiptNumber", "Amount">>),
      Envelope("full", JStr("m1"), JStr("1"), JInt(1), JStr("Insufficient funds"),
               "null", <<>>) }

NextHooks ==
    \/ \E r \in ReqIds, c \in Clients :
          pc[r] = "idle" /\ \E e \in HookEnvelopes : Request(r, c, Hook, e)
    \/ \E r \in ReqIds : c2b_mpesa_confirmation_resource(r)
    \/ \E r \in ReqIds : SetDone(r)
    \/ \E r \in ReqIds : SetFailed(r)
    \/ \E r \in ReqIds : AfterSet(r)
    \/ Tick

SpecHooks == Init /\ [][NextHooks]_vars

(***************************************************************************)
(* What the claims are stated with: the envelope as its sender wrote it,   *)
(* and the stored text as a reader of the store decodes it.                *)
(***************************************************************************)
\* json.loads of a stored text: every member's value is the one scalar whose
\* encoding is the stored token.
Decode(tok) == CHOOSE v \in Scalars : JsonToken(v) = tok
JsonLoads(text) == [i \in 1..Len(text) |-> [k |-> text[i].k, v |-> Decode(text[i].tok)]]

Done(r) == pc[r] = "done"
WritesBy(r) == {i \in 1..Len(writes) : writes[i].req = r}

IsZero(v) == v \in {JInt(0), JBool(FALSE)}

\* The required fields that an envelope lacks.
Absentees(e) ==
    CASE e.shape \in {"none", "empty"} -> {"Body"}
      [] e.shape \in {"bodyNull", "bodyEmpty"} -> {"stkCallback"}
      [] e.shape = "stkNull" -> StkFields
      [] OTHER -> {k \in StkFields : e[k] = Absent}

HasAll(e) == Absentees(e) = {}

ReceiptKey(e) ==
    "receipt:" \o (IF e.CheckoutRequestID.t = "str"
                   THEN e.CheckoutRequestID.s
                   ELSE ToString(e.CheckoutRequestID.n))

\* The entry at position i of the envelope's Item list carries the name n.
Named(e, i, n) ==
    LET entry == Items(e.kinds)[i].o IN
    "Name" \in DOMAIN entry /\ entry.Name = JStr(n)

Occurs(e, n) == \E i \in 1..Len(e.kinds) : Named(e, i, n)

First(e, n) ==
    CHOOSE i \in 1..Len(e.kinds) :
        Named(e, i, n) /\ \A j \in 1..(i - 1) : ~Named(e, j, n)

FirstValue(e, n) == Items(e.kinds)[First(e, n)].o.Value

FailureRecord(e) ==
    << Pair("MerchantRequestID", e.MerchantRequestID),
       Pair("CheckoutRequestID", e.CheckoutRequestID),
       Pair("ResultCode", e.ResultCode),
       Pair("ResultDesc", e.ResultDesc) >>

SuccessRecord(e) ==
    FailureRecord(e) \o
    << Pair("Amount", FirstValue(e, "Amount")),
       Pair("MpesaReceiptNumber", FirstValue(e, "MpesaReceiptNumber")),
       Pair("TransactionDate", FirstValue(e, "TransactionDate")),
       Pair("PhoneNumber", FirstValue(e, "PhoneNumber")) >>

FailureCase(e) == HasAll(e) /\ ~IsZero(e.ResultCode)

\* A success envelope as the payment provider documents it: Item is a list of
\* {Name, Value} pairs in which every one of the four names occurs, and
\* ResultDesc is a string.
ValidSuccess(e) ==
    /\ HasAll(e) /\ IsZero(e.ResultCode) /\ e.ResultDesc.t = "str"
    /\ e.meta = "items"
    /\ \A i \in 1..Len(e.kinds) : e.kinds[i] \in WellFormedKinds
    /\ \A n \in WellFormedKinds : Occurs(e, n)

MissingFieldDetails(k) ==
    {JStr("Missing required field: " \o k),
     JStr("Missing required field: '" \o k \o "'")}

(***************************************************************************)
(* C1.  Malformed input: whenever a required field (Body, stkCallback,     *)
(* MerchantRequestID, CheckoutRequestID, ResultCode, ResultDesc) is absent *)
(* from the payload, the handler ends with a 400 response whose detail is  *)
(* "Missing required field: <name>" for an absent name, and the store is   *)
(* left as it was.                                                         *)
(***************************************************************************)
C1_MissingFieldIs400 ==
    \A r \in ReqIds :
        (Done(r) /\ route[r] = Hook /\ resp[r] # TooManyRequests
                 /\ envelope[r].shape # "none" /\ Absentees(envelope[r]) # {})
        => /\ resp[r].status = 400
           /\ \E k \in Absentees(envelope[r]) : resp[r].detail \in MissingFieldDetails(k)
           /\ writes = <<>>
           /\ store \in EarlierStores

(***************************************************************************)
(* C2.  Failure path: for an envelope with every required field and a      *)
(* ResultCode other than 0, the handler reads no CallbackMetadata, writes   *)
(* the four-field failure record at receipt:<CheckoutRequestID> and only   *)
(* then answers 400 with ResultDesc as the detail: a caller that sees that *)
(* 400 finds the record written.  (The only other end of this path is the  *)
(* 500 of a failed store write.)                                           *)
(***************************************************************************)
C2_FailureStoredBefore400 ==
    \A r \in ReqIds :
        (route[r] = Hook /\ FailureCase(envelope[r]) /\ resp[r] # TooManyRequests)
        => LET e == envelope[r] IN
           /\ frame[r].kind # "raise"
           /\ pc[r] \in {"awaitSet", "afterSet"} => resp[r] = NoResponse
           /\ pc[r] = "awaitSet" => writes = <<>>
           /\ Done(r) => resp[r] \in {HTTPException(e.ResultDesc), ServerError}
           /\ resp[r] = HTTPException(e.ResultDesc)
              => /\ Len(writes) = 1 /\ writes[1].req = r
                 /\ writes[1].key = ReceiptKey(e)
                 /\ ReceiptKey(e) \in DOMAIN store
                 /\ store[ReceiptKey(e)] = writes[1].value
                 /\ JsonLoads(store[ReceiptKey(e)]) = FailureRecord(e)

C2_Witness ==
    \E r \in ReqIds :
        /\ Done(r) /\ FailureCase(envelope[r])
        /\ envelope[r].meta = "null" /\ envelope[r].ResultCode = JStr("0")
        /\ resp[r] = HTTPException(envelope[r].ResultDesc)
        /\ JsonLoads(store[ReceiptKey(envelope[r])]) = FailureRecord(envelope[r])

(***************************************************************************)
(* C3.  Success path: for a valid success envelope the record stored at    *)
(* receipt:<CheckoutRequestID> decodes to the envelope's own values of the *)
(* eight fields, untransformed, and the response is the confirmation       *)
(* {receipt_id: MpesaReceiptNumber, success: true, errors: ResultDesc}.    *)
(* (The only other end of this path is the 500 of a failed store write.)   *)
(***************************************************************************)
C3_SuccessStoredAndConfirmed ==
    \A r \in ReqIds :
        (Done(r) /\ route[r] = Hook /\ ValidSuccess(envelope[r])
                 /\ resp[r] # TooManyRequests)
        => LET e == envelope[r] IN
           /\ resp[r] \in {PaymentConfirmation(FirstValue(e, "MpesaReceiptNumber"),
                                               TRUE, e.ResultDesc),
                           ServerError}
           /\ resp[r] # ServerError
              => /\ ReceiptKey(e) \in DOMAIN store
                 /\ JsonLoads(store[ReceiptKey(e)]) = SuccessRecord(e)

C3_Witness ==
    \E r \in ReqIds :
        /\ Done(r) /\ ValidSuccess(envelope[r])
        /\ envelope[r].CheckoutRequestID = JInt(1)
        /\ resp[r].kind = "confirmation" /\ resp[r].success
        /\ JsonLoads(store["receipt:1"]) = SuccessRecord(envelope[r])

(***************************************************************************)
(* C4.  Success path with a name missing: when ResultCode is 0 and          *)
(* CallbackMetadata.Item has no entry named Amount, MpesaReceiptNumber,   *)
(* TransactionDate or PhoneNumber, the handler answers with a 400-class    *)
(* MissingField response and writes nothing.                               *)
(***************************************************************************)
C4_MissingNameIs400 ==
    \A r \in ReqIds :
        (Done(r) /\ route[r] = Hook /\ resp[r] # TooManyRequests
                 /\ HasAll(envelope[r]) /\ IsZero(envelope[r].ResultCode)
                 /\ envelope[r].meta = "items"
                 /\ \E n \in WellFormedKinds : ~Occurs(envelope[r], n))
        => /\ resp[r].status = 400
           /\ writes = <<>>

(***************************************************************************)
(* C7.  First match: on the success path the value taken for each of the   *)
(* four names, and stored, is the Value of the first entry of Item that    *)
(* carries the name; no later entry has any influence on it.               *)
(***************************************************************************)
C7_FirstMatchWins ==
    \A r \in ReqIds :
        (route[r] = Hook /\ frame[r].kind = "set" /\ frame[r].path = "success")
        => LET e == envelope[r] IN
           \A n \in WellFormedKinds :
              /\ Occurs(e, n)
              /\ \E i \in 1..Len(frame[r].transc) :
                    frame[r].transc[i] = Pair(n, FirstValue(e, n))
              /\ \A i \in WritesBy(r) : \A j \in 1..Len(writes[i].value) :
                    writes[i].value[j].k = n
                    => Decode(writes[i].value[j].tok) = FirstValue(e, n)

C7_Witness ==
    \E r \in ReqIds :
        /\ Done(r) /\ resp[r].kind = "confirmation"
        /\ envelope[r].kinds = <<"PhoneNumber", "Amount", "MpesaReceiptNumber",
                                 "Amount", "TransactionDate">>
        /\ \E j \in 1..Len(store["receipt:c1"]) :
              store["receipt:c1"][j] = [k |-> "Amount", tok |-> "2"]

(***************************************************************************)
(* C5.  Exactly one write: an invocation that reaches the success or the   *)
(* failure path calls the store's SET exactly once, the store executes at  *)
(* most that one write for it (exactly one unless the store failed), the   *)
(* write goes to receipt:<CheckoutRequestID> of the invocation's own       *)
(* envelope, and no step changes or removes any other key.                 *)
(***************************************************************************)
ExpectedRecord(e) ==
    IF IsZero(e.ResultCode) THEN SuccessRecord(e) ELSE FailureRecord(e)

C5_State ==
    \A r \in ReqIds :
        (route[r] = Hook /\ frame[r].kind = "set")
        => /\ sets[r] = 1
           /\ Cardinality(WritesBy(r)) <= 1
           /\ (pc[r] = "afterSet" \/ (Done(r) /\ resp[r] # ServerError))
              => Cardinality(WritesBy(r)) = 1
           /\ \A i \in WritesBy(r) : writes[i].key = ReceiptKey(envelope[r])

C5_Step ==
    /\ DOMAIN store \subseteq DOMAIN store'
    /\ \A k \in DOMAIN store' :
          (k \notin DOMAIN store \/ store'[k] # store[k])
          => \E r \in ReqIds :
                /\ pc[r] = "awaitSet" /\ pc'[r] = "afterSet"
                /\ k = ReceiptKey(envelope[r])
                /\ \A q \in ReqIds \ {r} : pc'[q] = pc[q]

C5_ExactlyOneWrite == [](C5_State) /\ [][C5_Step]_vars

C5_Witness ==
    \E r, q \in ReqIds :
        /\ r # q /\ Done(r) /\ Done(q)
        /\ ReceiptKey(envelope[r]) # ReceiptKey(envelope[q])
        /\ Len(writes) = 2 /\ writes[1].req = q /\ writes[2].req = r
        /\ store[ReceiptKey(envelope[q])] = writes[1].value
        /\ store[ReceiptKey(envelope[r])] = writes[2].value

(***************************************************************************)
(* C6.  Last write wins: every key of the store holds exactly the complete *)
(* record of the invocation whose write to that key the store executed     *)
(* last, success- or failure-shaped, never a mixture and never an earlier  *)
(* record; so the same envelope submitted twice leaves what one submission *)
(* leaves.                                                                 *)
(***************************************************************************)
LastWrite(k) ==
    CHOOSE i \in 1..Len(writes) :
        writes[i].key = k /\ \A j \in (i + 1)..Len(writes) : writes[j].key # k

C6_LastWriteWins ==
    /\ DOMAIN store = {writes[i].key : i \in 1..Len(writes)}
    /\ \A k \in DOMAIN store :
          LET w == writes[LastWrite(k)] IN
          /\ store[k] = w.value
          /\ JsonLoads(store[k]) = ExpectedRecord(envelope[w.req])
    /\ \A r, q \in ReqIds :
          (/\ r # q /\ envelope[r] = envelope[q]
           /\ WritesBy(r) # {} /\ WritesBy(q) # {}
           /\ writes[LastWrite(ReceiptKey(envelope[r]))].req \in {r, q})
          => JsonLoads(store[ReceiptKey(envelope[r])]) = ExpectedRecord(envelope[r])

C6_Witness ==
    \E r, q \in ReqIds :
        /\ r # q
        /\ IsZero(envelope[r].ResultCode) /\ ~IsZero(envelope[q].ResultCode)
        /\ Len(writes) = 2 /\ writes[1].req = r /\ writes[2].req = q
        /\ writes[1].key = writes[2].key
        /\ Len(store[writes[1].key]) = 4
        /\ JsonLoads(store[writes[1].key]) = FailureRecord(envelope[q])

(***************************************************************************)
(* C8.  Rate limiting: on every route and for every limiting key, a        *)
(* request reaches its handler only if no request of the same key reached  *)
(* a handler in the 5 seconds before; a request arriving within those 5    *)
(* seconds is answered 429 and runs no handler logic: it never sleeps,     *)
(* never reads its envelope and never writes to the store.                 *)
(***************************************************************************)
C8_State ==
    \A r \in ReqIds :
        resp[r] = TooManyRequests
        => /\ resp[r].status = 429 /\ Done(r)
           /\ frame[r] = NoFrame /\ sets[r] = 0 /\ slept[r] = 0
           /\ WritesBy(r) = {}

C8_Step ==
    \A r \in ReqIds :
        /\ (pc[r] = "idle" /\ pc'[r] # "idle")
           => LET k == <<client'[r], route'[r]>> IN
              /\ pc'[r] \in {"admitted", "done"}
              /\ sinceAdmit[k] \in 0..(Seconds - 1)
                 => /\ pc'[r] = "done" /\ resp'[r] = TooManyRequests
                    /\ store' = store /\ writes' = writes
              /\ pc'[r] = "admitted"
                 => sinceAdmit[k] = Never \/ sinceAdmit[k] >= Seconds
        /\ Done(r) => (pc'[r] = "done" /\ resp'[r] = resp[r])

C8_RateLimited == [](C8_State) /\ [][C8_Step]_vars

C8_Witness ==
    \E r, q \in ReqIds :
        /\ r # q /\ route[r] = Hook /\ route[q] = Hook /\ client[r] = client[q]
        /\ Done(q) /\ WritesBy(q) # {}
        /\ resp[r] = TooManyRequests /\ Len(writes) = 1

(***************************************************************************)
(* C9.  Cache of GET /cached: a request that reaches the endpoint while a  *)
(* response stored less than 30 seconds before is in the cache is answered *)
(* from the cache, with the same body as every other answer of the         *)
(* endpoint and without the 5 second sleep; a request that reaches it when *)
(* nothing was stored in the last 30 seconds sleeps the 5 seconds again.   *)
(***************************************************************************)
C9_State ==
    \A r, q \in ReqIds :
        (Done(r) /\ Done(q) /\ route[r] = "/cached" /\ route[q] = "/cached"
                 /\ resp[r].status = 200 /\ resp[q].status = 200)
        => resp[r] = resp[q]

C9_Step ==
    \A r \in ReqIds :
        /\ (pc[r] = "admitted" /\ route[r] = "/cached" /\ pc'[r] # "admitted")
           => /\ sinceStore \in 0..(Expire - 1)
                 => /\ pc'[r] = "done" /\ resp'[r].status = 200
                    /\ slept'[r] = 0 /\ sleepLeft'[r] = 0
              /\ (sinceStore = Never \/ sinceStore >= Expire)
                 => /\ pc'[r] = "sleeping" /\ resp'[r] = NoResponse
                    /\ slept'[r] = 1 /\ sleepLeft'[r] = SleepSeconds
        /\ (pc[r] = "sleeping" /\ pc'[r] # "sleeping") => sleepLeft[r] = 0

C9_CachedWithinWindow == [](C9_State) /\ [][C9_Step]_vars

C9_Witness ==
    \E r, q \in ReqIds :
        /\ r # q /\ route[r] = "/cached" /\ route[q] = "/cached"
        /\ Done(r) /\ Done(q) /\ slept[r] = 1 /\ slept[q] = 0
        /\ resp[q].status = 200 /\ resp[q] = resp[r]
        /\ sinceStore = Expire - 1

(***************************************************************************)
(* C10.  Store failure: an invocation whose one SET the store did not      *)
(* execute ends with a 500, not with the 400 of a missing field or of      *)
(* ResultDesc and not with a confirmation, and has called SET only once.   *)
(***************************************************************************)
C10_StoreFailureIs500 ==
    \A r \in ReqIds :
        (Done(r) /\ route[r] = Hook /\ frame[r].kind = "set" /\ WritesBy(r) = {})
        => /\ resp[r] = ServerError /\ resp[r].status = 500
           /\ sets[r] = 1

C10_Witness ==
    \E r, q \in ReqIds :
        /\ r # q /\ Done(r) /\ Done(q)
        /\ frame[r].kind = "set" /\ frame[q].kind = "set"
        /\ frame[r].path = "success" /\ frame[q].path = "failure"
        /\ writes = <<>> /\ store = EmptyStore
        /\ resp[r].status = 500 /\ resp[q].status = 500

====
